---- MODULE Spec2Model ----
(***************************************************************************)
(* A model of pad_alpha.py: the padding pipeline pad_image runs on one     *)
(* RGBA image (parameter resolution, mask derivation, smooth_pad,          *)
(* flood_fill_pad, the alpha step, the save).                              *)
(*                                                                         *)
(* An image is a function from pixel positions <<i, j>> (row, column,      *)
(* 0-based as in numpy) to <<R, G, B, A>>, each channel in 0..255.         *)
(* blur_sigma is held in tenths (30 is 3.0).                               *)
(***************************************************************************)
EXTENDS Integers, Sequences, FiniteSets

\* ---------------------------------------------------------------- bounds
\* Images are w x h with at most this many pixels.
MaxPixels == 6
\* At most this many pixels of an input are marked valid.
MaxValid == 2
\* pad_image is invoked at most this many times on the same arguments.
MaxRuns == 2

\* ------------------------------------------------------ program constants
DefaultRadius == 3
DefaultSigma10 == 30
AlphaMax == 255
MaskThreshold == 128

\* ----------------------------------------------------------- input sets
\* Caller-supplied radii (the spec's radius >= 1), other than the
\* auto-derived 2 and the default 3.
Radii == { 1 }
\* Caller-supplied blur_sigma, in tenths.
Sigmas == { 25 }
\* What normalized * 255 may be at a pixel, as far as the model follows it.
FadeLevels == { 0, 128, 255 }
\* What .astype(np.uint8) may make of NaN, as far as the model follows it.
NaNCasts == { 0, 128, 255 }

\* Python's None and a value that is not None: a set of at most one element.
None == {}
Some(x) == {x}
The(o) == CHOOSE x \in o : TRUE

\* An array not yet made.
NoArray == << >>

Max(a, b) == IF a >= b THEN a ELSE b
Min(a, b) == IF a <= b THEN a ELSE b

Pix(w, h) == (0 .. h - 1) \X (0 .. w - 1)

RGB(px) == <<px[1], px[2], px[3]>>

\* Whether q lies in the (2*radius+1) x (2*radius+1) window centred on p.
InWindow(p, q, radius) ==
    /\ q[1] >= p[1] - radius /\ q[1] <= p[1] + radius
    /\ q[2] >= p[2] - radius /\ q[2] <= p[2] + radius

\* The positions of p's window that add to its sums: those of the image
\* (outside it the filter reads cval = 0.0) where weight_mask is 1.
Weighted(mask, radius, p) ==
    { q \in DOMAIN mask : mask[q] /\ InWindow(p, q, radius) }

\* np.sum of channel c over a set of positions.
RECURSIVE SumOver(_, _, _)
SumOver(S, data, c) ==
    IF S = {} THEN 0
    ELSE LET q == CHOOSE x \in S : TRUE
         IN  data[q][c] + SumOver(S \ {q}, data, c)

\* generic_filter(channel * weight_mask, np.sum, ...) at p, channel c.
sum_c(data, mask, radius, p, c) ==
    SumOver(Weighted(mask, radius, p), data, c)

\* The window's sum of weights with every position of the image at weight 1.
sum_w_unweighted(mask, radius, p) ==
    Cardinality({ q \in DOMAIN mask : InWindow(p, q, radius) })

\* generic_filter(weight_mask, np.sum, ...) at p.
sum_w(mask, radius, p) ==
    Cardinality(Weighted(mask, radius, p))

\* np.divide(sum_c, sum_w, out=zeros, where=sum_w > 0), as the uint8 the
\* assignment into output stores: the cast of a float in 0..255 truncates,
\* and for sums of at most a few thousand terms the float32 quotient has
\* the integer part of the exact one.
avg_c(data, mask, radius, p, c) ==
    LET w == sum_w(mask, radius, p)
    IN  IF w > 0 THEN sum_c(data, mask, radius, p, c) \div w ELSE 0

\* smooth_pad without the [~mask] of its assignment.
smooth_pad_unmasked(data, mask, radius) ==
    [p \in DOMAIN data |->
        << avg_c(data, mask, radius, p, 1),
           avg_c(data, mask, radius, p, 2),
           avg_c(data, mask, radius, p, 3),
           data[p][4] >>]

smooth_pad(data, mask, radius) ==
    [p \in DOMAIN data |->
        IF mask[p] THEN data[p]
        ELSE << avg_c(data, mask, radius, p, 1),
                avg_c(data, mask, radius, p, 2),
                avg_c(data, mask, radius, p, 3),
                data[p][4] >>]

\* A distance that counts columns only.
Dist2_columns(p, q) == (p[2] - q[2]) * (p[2] - q[2])

\* Squared Euclidean distance between two positions.
Dist2(p, q) == (p[1] - q[1]) * (p[1] - q[1]) + (p[2] - q[2]) * (p[2] - q[2])

Valid(mask) == { q \in DOMAIN mask : mask[q] }

\* What distance_transform_edt(inverse_mask, return_indices=True) may hold
\* at p in (i_idx, j_idx): p itself where inverse_mask is false, a nearest
\* position where it is false otherwise, and <<-1, -1>> when there is none
\* (the value the feature transform starts from).
NearestValid(mask, p) ==
    LET V == Valid(mask)
    IN  IF mask[p] THEN {p}
        ELSE IF V = {} THEN { <<-1, -1>> }
        ELSE { q \in V : \A q2 \in V : Dist2(p, q) <= Dist2(p, q2) }

\* Every pair of index arrays the distance transform may return for the
\* mask over the positions S: which of several positions at the same
\* distance it returns is the library's rule, so each is a possible value,
\* pixel by pixel.
RECURSIVE IndexArraysOver(_, _)
IndexArraysOver(mask, S) ==
    IF S = {} THEN { << >> }
    ELSE LET p == CHOOSE x \in S : TRUE
         IN  { [x \in S |-> IF x = p THEN q ELSE f[x]] :
                 f \in IndexArraysOver(mask, S \ {p}),
                 q \in NearestValid(mask, p) }

IndexArrays(mask) == IndexArraysOver(mask, DOMAIN mask)

\* data[i_idx, j_idx]: numpy counts a negative index from the end.
AtIndex(data, ij, w, h) ==
    data[<< IF ij[1] < 0 THEN ij[1] + h ELSE ij[1],
            IF ij[2] < 0 THEN ij[2] + w ELSE ij[2] >>]

\* A flood fill of the pixels smooth_pad left black only.
flood_fill_pad_remaining(data, mask, idx, w, h) ==
    [p \in DOMAIN data |->
        IF mask[p] \/ RGB(data[p]) # << 0, 0, 0 >> THEN data[p]
        ELSE << AtIndex(data, idx[p], w, h)[1],
                AtIndex(data, idx[p], w, h)[2],
                AtIndex(data, idx[p], w, h)[3],
                data[p][4] >>]

\* flood_fill_pad with the index arrays idx the distance transform returned.
flood_fill_pad(data, mask, idx, w, h) ==
    IF \A p \in DOMAIN mask : mask[p] THEN data
    ELSE [p \in DOMAIN data |->
            IF mask[p] THEN data[p]
            ELSE << AtIndex(data, idx[p], w, h)[1],
                    AtIndex(data, idx[p], w, h)[2],
                    AtIndex(data, idx[p], w, h)[3],
                    data[p][4] >>]

\* round(x, 1) of x = num / den >= 0, in tenths: the nearest tenth, a tie
\* going to the even one.
RoundTenths(num, den) ==
    LET q == (10 * num) \div den
        r == (10 * num) % den
    IN  IF 2 * r < den THEN q
        ELSE IF 2 * r > den THEN q + 1
        ELSE IF q % 2 = 0 THEN q ELSE q + 1

\* auto_set_params(image_size): <<radius, sigma in tenths>>.
\* max_dim / 512 * 3 and max_dim / 1024 * 3 are exact in floating point for
\* every image dimension, so int() is the floor of the exact quotient and
\* round() acts on the exact clamped value.
auto_set_params(w, h) ==
    LET max_dim == Max(w, h)
        radius  == Max(2, (max_dim * 3) \div 512)
        clamped == Min(10 * 1024, Max(1 * 1024, max_dim * 3))
    IN  << radius, RoundTenths(clamped, 1024) >>

\* ---------------------------------------------------------------- state
VARIABLES
    argv,         \* the arguments of pad_image and the files they name
    runs,         \* how many times pad_image was invoked on argv
    pc,           \* where the current invocation stands
    data,         \* np.array(orig_img)
    radius,       \* the parameter radius, as reassigned
    blur_sigma,   \* the parameter blur_sigma (tenths), as reassigned
    mask,         \* the validity mask
    idx,          \* (i_idx, j_idx) of flood_fill_pad
    padded_data,  \* the padded array
    out_file,     \* the image saved at output_path, None while none is
    lib           \* what scipy and numpy returned where the model draws it

vars == << argv, runs, pc, data, radius, blur_sigma, mask, idx,
           padded_data, out_file, lib >>

\* distance_transform_edt, gaussian_filter and the cast of NaN are functions
\* of their arguments: a result the model draws is drawn once and is the
\* same in every later run on the same arguments.
Drawn(memo, choices) == IF memo = None THEN choices ELSE memo

\* The inputs. The RGB of a pixel marked valid differs from position to
\* position, so that a filled pixel's source can be told; the RGBA of the
\* others is not black and has alpha 0, 127, 254, 126, ... (all below 255).
Colour(p) ==
    << 17 + 7 * p[1] + 30 * p[2], 255 - 30 * p[1] - 3 * p[2],
       (97 * (3 * p[1] + p[2] + 1)) % 256 >>

Unmarked(p) ==
    << 7 + p[2], 77, 177 - p[1], (127 * (p[1] + p[2])) % 255 >>

\* An RGBA image of w x h whose pixels in V are opaque.
ImageOf(w, h, V) ==
    [ w |-> w, h |-> h,
      px |-> [p \in Pix(w, h) |->
                IF p \in V
                THEN << Colour(p)[1], Colour(p)[2], Colour(p)[3], AlphaMax >>
                ELSE Unmarked(p)] ]

\* A greyscale mask image of mw x mh: 255 or 129 on V, 128 or 0 elsewhere.
MaskImageOf(mw, mh, V) ==
    [ w |-> mw, h |-> mh,
      px |-> [p \in Pix(mw, mh) |->
                IF p \in V
                THEN (IF (p[1] + p[2]) % 2 = 0 THEN 255 ELSE MaskThreshold + 1)
                ELSE (IF (p[1] + p[2]) % 2 = 0 THEN MaskThreshold ELSE 0)] ]

\* The mask files a call on a w x h image may name: one of the image's
\* size marking V, one a column wider and one a row taller.
MaskImages(w, h, V) ==
    { MaskImageOf(w, h, V), MaskImageOf(w + 1, h, V), MaskImageOf(w, h + 1, V) }

Init ==
    /\ \E w \in 1 .. MaxPixels, h \in 1 .. MaxPixels :
         /\ w * h <= MaxPixels
         /\ \E V \in { S \in SUBSET Pix(w, h) : Cardinality(S) <= MaxValid } :
              \E uv \in {None} \cup { Some(m) : m \in MaskImages(w, h, V) },
                 r \in {None} \cup { Some(n) : n \in Radii },
                 s \in {None} \cup { Some(n) : n \in Sigmas },
                 a \in BOOLEAN :
                argv = [ orig_img |-> ImageOf(w, h, V),
                         uv_mask |-> uv,
                         radius |-> r,
                         blur_sigma |-> s,
                         auto_params |-> a ]
    /\ runs = 1
    /\ pc = "load"
    /\ data = NoArray
    /\ radius = argv.radius
    /\ blur_sigma = argv.blur_sigma
    /\ mask = NoArray
    /\ idx = NoArray
    /\ padded_data = NoArray
    /\ out_file = None
    /\ lib = [ edt |-> None, fade |-> None, nan |-> None ]

\* Parameter setting in which --auto overrides what the caller supplied.
set_params_auto_first(r, s, auto_params, w, h) ==
    LET auto == auto_set_params(w, h)
        use_auto == auto_params \/ (r = None /\ s = None)
        r1 == IF use_auto THEN Some(auto[1]) ELSE r
        s1 == IF use_auto THEN Some(auto[2]) ELSE s
    IN  << IF r1 = None THEN Some(DefaultRadius) ELSE r1,
           IF s1 = None THEN Some(DefaultSigma10) ELSE s1 >>

\* What radius and blur_sigma are after "Auto-set parameters if requested"
\* and "Set defaults if still None", from what they were on entry.
set_params(r, s, auto_params, w, h) ==
    LET auto == auto_set_params(w, h)
        use_auto == auto_params \/ (r = None /\ s = None)
        r1 == IF use_auto /\ r = None THEN Some(auto[1]) ELSE r
        s1 == IF use_auto /\ s = None THEN Some(auto[2]) ELSE s
    IN  << IF r1 = None THEN Some(DefaultRadius) ELSE r1,
           IF s1 = None THEN Some(DefaultSigma10) ELSE s1 >>

\* pad_image up to its defaults: the image is loaded and radius and
\* blur_sigma take their values.
LoadAndSetParams ==
    /\ pc = "load"
    /\ LET rs == set_params(radius, blur_sigma, argv.auto_params,
                            argv.orig_img.w, argv.orig_img.h)
       IN  /\ radius' = rs[1]
           /\ blur_sigma' = rs[2]
    /\ data' = argv.orig_img.px
    /\ pc' = "mask"
    /\ UNCHANGED << argv, runs, mask, idx, padded_data, out_file, lib >>

\* A size check that compares the widths only.
load_mask_image_width_only(mask_img, w, h) ==
    IF mask_img.w # w THEN None
    ELSE Some([p \in Pix(w, h) |-> mask_img.px[p] > MaskThreshold])

\* load_mask_image: the mask of another size raises ValueError, which the
\* handler turns into sys.exit(1).
load_mask_image(mask_img, w, h) ==
    IF << mask_img.w, mask_img.h >> # << w, h >> THEN None
    ELSE Some([p \in Pix(w, h) |-> mask_img.px[p] > MaskThreshold])

\* A test for alpha 0 everywhere in place of alpha 255 everywhere.
no_transparency_zero(d) == \A p \in DOMAIN d : d[p][4] = 0

\* np.all(alpha == 255)
no_transparency(d) == \A p \in DOMAIN d : d[p][4] = AlphaMax

\* The mask from the UV mask file or from the alpha channel; an image
\* without transparency makes pad_image return here.
DetermineMask ==
    /\ pc = "mask"
    /\ IF argv.uv_mask # None
       THEN LET m == load_mask_image(The(argv.uv_mask),
                                     argv.orig_img.w, argv.orig_img.h)
            IN  IF m = None
                THEN /\ pc' = "exit1"
                     /\ UNCHANGED << mask, data >>
                ELSE /\ mask' = The(m)
                     /\ pc' = "smooth"
                     /\ UNCHANGED data
       ELSE IF no_transparency(data)
            THEN /\ pc' = "returned"
                 /\ UNCHANGED << mask, data >>
            ELSE /\ mask' = [p \in DOMAIN data |-> data[p][4] = AlphaMax]
                 /\ data' = [p \in DOMAIN data |->
                               IF data[p][4] < AlphaMax
                               THEN << 0, 0, 0, data[p][4] >>
                               ELSE data[p]]
                 /\ pc' = "smooth"
    /\ UNCHANGED << argv, runs, radius, blur_sigma, idx, padded_data, out_file,
                    lib >>

ApplySmoothPad ==
    /\ pc = "smooth"
    /\ padded_data' = smooth_pad(data, mask, The(radius))
    /\ pc' = "flood"
    /\ UNCHANGED << argv, runs, data, radius, blur_sigma, mask, idx, out_file,
                    lib >>

ApplyFloodFill ==
    /\ pc = "flood"
    /\ \E ix \in Drawn(lib.edt, IndexArrays(mask)) :
         /\ idx' = ix
         /\ lib' = [lib EXCEPT !.edt = Some(ix)]
         /\ padded_data' = flood_fill_pad(padded_data, mask, ix,
                                          argv.orig_img.w, argv.orig_img.h)
    /\ pc' = "alpha"
    /\ UNCHANGED << argv, runs, data, radius, blur_sigma, mask, out_file >>

\* distance.max() == distance.min(), where distance is the blurred field of
\* the opaque pixels: the field is constant exactly when no pixel is opaque
\* (an image of opaque pixels only returned before the alpha step).
field_is_constant(alpha) == \A p \in DOMAIN alpha : alpha[p] < AlphaMax

\* The alpha step. In alpha mode the blurred field of the opaque pixels is
\* normalized by its range. scipy's gaussian_filter is not computed here.
\* Where the field is constant the range is 0, normalized is NaN everywhere, np.maximum(alpha, NaN) is NaN and its uint8 cast is
\* the build's choice. Otherwise np.clip keeps normalized in [0, 1], and
\* normalized * 255 is drawn as one level for the pixels that are not
\* opaque (at an opaque pixel the maximum is 255 whatever the level).
HandleAlpha ==
    /\ pc = "alpha"
    /\ IF argv.uv_mask = None
       THEN LET alpha == [p \in DOMAIN data |-> data[p][4]]
            IN  IF field_is_constant(alpha)
                THEN \E nan \in Drawn(lib.nan, NaNCasts) :
                       /\ lib' = [lib EXCEPT !.nan = Some(nan)]
                       /\ padded_data' =
                            [p \in DOMAIN padded_data |->
                               << padded_data[p][1], padded_data[p][2],
                                  padded_data[p][3], nan >>]
                ELSE \E f \in Drawn(lib.fade, FadeLevels) :
                       /\ lib' = [lib EXCEPT !.fade = Some(f)]
                       /\ padded_data' =
                            [p \in DOMAIN padded_data |->
                               << padded_data[p][1], padded_data[p][2],
                                  padded_data[p][3], Max(alpha[p], f) >>]
       ELSE /\ padded_data' =
                 [p \in DOMAIN padded_data |->
                    << padded_data[p][1], padded_data[p][2], padded_data[p][3],
                       AlphaMax >>]
            /\ UNCHANGED lib
    /\ pc' = "save"
    /\ UNCHANGED << argv, runs, data, radius, blur_sigma, mask, idx, out_file >>

\* result_img.save(output_path)
Save ==
    /\ pc = "save"
    /\ out_file' = Some(padded_data)
    /\ pc' = "saved"
    /\ UNCHANGED << argv, runs, data, radius, blur_sigma, mask, idx, padded_data,
                    lib >>

\* The run is over: it saved, returned without output, or exited with 1.
Ended == pc \in { "saved", "returned", "exit1" }

\* The tool is run again on the same arguments; only the files remain of
\* the run before.
RunAgain ==
    /\ Ended
    /\ runs < MaxRuns
    /\ runs' = runs + 1
    /\ pc' = "load"
    /\ data' = NoArray
    /\ radius' = argv.radius
    /\ blur_sigma' = argv.blur_sigma
    /\ mask' = NoArray
    /\ idx' = NoArray
    /\ padded_data' = NoArray
    /\ UNCHANGED << argv, out_file, lib >>

Next ==
    \/ LoadAndSetParams
    \/ DetermineMask
    \/ ApplySmoothPad
    \/ ApplyFloodFill
    \/ HandleAlpha
    \/ Save
    \/ RunAgain

Spec == Init /\ [][Next]_vars

\* ------------------------------------------------------------ the claims
use_uv_mask == argv.uv_mask # None
orig_px == argv.orig_img.px

\* Squared Euclidean distance, as the claims measure it.
SqDist(p, q) == (p[1] - q[1]) ^ 2 + (p[2] - q[2]) ^ 2

\* Whether a valid pixel lies in the (2r+1) x (2r+1) window around p.
ValidInWindow(p, r) ==
    \E q \in DOMAIN mask :
        /\ mask[q]
        /\ q[1] - p[1] \in (0 - r) .. r
        /\ q[2] - p[2] \in (0 - r) .. r

\* C1: a pixel whose mask value is true has the RGB of the input after
\* smooth_pad (pc = "flood") and after flood_fill_pad (pc = "alpha").
C1_ValidPixelInvariance ==
    pc \in { "flood", "alpha" } =>
        \A p \in DOMAIN mask :
            mask[p] => /\ RGB(padded_data[p]) = RGB(data[p])
                       /\ RGB(padded_data[p]) = RGB(orig_px[p])

\* Both stages ran on a mask with valid and invalid pixels, and wrote
\* an invalid one.
C1_Witness ==
    /\ pc = "alpha"
    /\ \E p \in DOMAIN mask : mask[p]
    /\ \E p \in DOMAIN mask : ~mask[p] /\ RGB(padded_data[p]) # RGB(data[p])

\* C2: with a valid pixel in the mask, after flood_fill_pad every invalid
\* pixel smooth_pad found no valid pixel around has the input RGB of a
\* valid pixel no farther from it (Euclidean) than any other valid pixel.
C2_NearestValidFill ==
    (pc = "alpha" /\ \E q \in DOMAIN mask : mask[q]) =>
        \A p \in DOMAIN mask :
            (~mask[p] /\ ~ValidInWindow(p, The(radius))) =>
                \E q \in DOMAIN mask :
                    /\ mask[q]
                    /\ \A q2 \in DOMAIN mask :
                           mask[q2] => SqDist(p, q) <= SqDist(p, q2)
                    /\ RGB(padded_data[p]) = RGB(orig_px[q])

\* flood_fill_pad filled a pixel that smooth_pad had left black, and two
\* valid pixels at different distances were there to choose from.
C2_Witness ==
    /\ pc = "alpha"
    /\ \E p \in DOMAIN mask :
         /\ ~mask[p] /\ ~ValidInWindow(p, The(radius))
         /\ RGB(padded_data[p]) # << 0, 0, 0 >>
         /\ \E q \in DOMAIN mask, q2 \in DOMAIN mask :
              mask[q] /\ mask[q2] /\ SqDist(p, q) < SqDist(p, q2)

\* C3: in alpha mode the alpha written to the output is nowhere below the
\* original alpha.
C3_AlphaMonotone ==
    (pc \in { "save", "saved" } /\ ~use_uv_mask) =>
        \A p \in DOMAIN padded_data : padded_data[p][4] >= orig_px[p][4]

\* C4: a mask file of another size than the image ends the run with an
\* error before any stage: no mask, no padded array, no output file.
MaskSizeDiffers ==
    /\ use_uv_mask
    /\ \/ The(argv.uv_mask).w # argv.orig_img.w
       \/ The(argv.uv_mask).h # argv.orig_img.h

C4_MaskSizeMismatch ==
    MaskSizeDiffers =>
        /\ pc \in { "load", "mask", "exit1" }
        /\ DOMAIN mask = {}
        /\ DOMAIN padded_data = {}
        /\ out_file = None

\* A run on a mask as wide as the image and taller ended with the error.
C4_Witness ==
    /\ MaskSizeDiffers
    /\ pc = "exit1"
    /\ The(argv.uv_mask).w = argv.orig_img.w

\* C5: in alpha mode an image of alpha 255 everywhere makes every run
\* return without error before any stage: no mask and no padded array are
\* made, the pixels are those of the input and no file is written, in the
\* first run and in the runs after it.
AllOpaqueInput ==
    /\ ~use_uv_mask
    /\ \A p \in DOMAIN orig_px : orig_px[p][4] = 255

C5_NoOpPath ==
    AllOpaqueInput =>
        /\ pc \in { "load", "mask", "returned" }
        /\ DOMAIN mask = {}
        /\ DOMAIN padded_data = {}
        /\ out_file = None
        /\ pc # "load" => data = orig_px

\* The second run on an image of opaque pixels has returned.
C5_Witness ==
    /\ AllOpaqueInput
    /\ runs = 2
    /\ pc = "returned"

\* C6: once set, radius and blur_sigma are the caller's value where one was
\* supplied; an unsupplied one is the auto-derived value when auto_params is
\* set or neither was supplied, and the default (3, 3.0) otherwise.
ClaimedParam(supplied, other, auto, default) ==
    IF supplied # None THEN The(supplied)
    ELSE IF argv.auto_params \/ other = None THEN auto
    ELSE default

C6_ParameterPrecedence ==
    pc # "load" =>
        LET auto == auto_set_params(argv.orig_img.w, argv.orig_img.h)
        IN  /\ radius = { ClaimedParam(argv.radius, argv.blur_sigma, auto[1], 3) }
            /\ blur_sigma =
                 { ClaimedParam(argv.blur_sigma, argv.radius, auto[2], 30) }

\* smooth_pad is about to run with the default radius beside a supplied
\* sigma.
C6_Witness ==
    /\ pc = "smooth"
    /\ argv.radius = None /\ argv.blur_sigma # None /\ ~argv.auto_params
    /\ radius = { 3 }

\* C7: with no valid pixel in the mask the run raises an error: it never
\* gets to save an image.
C7_NoValidPixelRaises ==
    pc = "saved" => \E p \in DOMAIN mask : mask[p]

\* C8: in alpha mode, where no pixel is opaque (the blurred field is
\* constant) the output alpha is the original alpha at every pixel.
C8_DegenerateNormalization ==
    (pc \in { "save", "saved" } /\ ~use_uv_mask
       /\ \A p \in DOMAIN orig_px : orig_px[p][4] < 255)
    => \A p \in DOMAIN padded_data : padded_data[p][4] = orig_px[p][4]

\* The zero-padded window sums of the claim, term by term over the
\* (2r+1) x (2r+1) offsets: the colour of channel c (c = 0: the weight 1)
\* at a valid pixel of the image, 0 at an invalid one and outside.
Term(c, q) ==
    IF q \in DOMAIN mask /\ mask[q] THEN (IF c = 0 THEN 1 ELSE data[q][c])
    ELSE 0

RECURSIVE RowSum(_, _, _, _)
RowSum(c, i, j, jmax) ==
    IF j > jmax THEN 0 ELSE Term(c, << i, j >>) + RowSum(c, i, j + 1, jmax)

RECURSIVE BoxSum(_, _, _, _, _)
BoxSum(c, p, r, i, imax) ==
    IF i > imax THEN 0
    ELSE RowSum(c, i, p[2] - r, p[2] + r) + BoxSum(c, p, r, i + 1, imax)

weightedColorSum(c, p, r) == BoxSum(c, p, r, p[1] - r, p[1] + r)
weightSum(p, r) == BoxSum(0, p, r, p[1] - r, p[1] + r)

\* C9 as stated: after smooth_pad an invalid pixel holds, per channel,
\* weightedColorSum / weightSum cut to an integer where weightSum > 0, and
\* the value it had where weightSum = 0.
C9_WeightedAverageOrKept ==
    pc = "flood" =>
        \A p \in DOMAIN mask :
            ~mask[p] =>
                LET r == The(radius)
                    wsum == weightSum(p, r)
                IN  \A c \in 1 .. 3 :
                        padded_data[p][c] =
                            IF wsum > 0 THEN weightedColorSum(c, p, r) \div wsum
                            ELSE data[p][c]

\* C9 as amended: where weightSum = 0 the pixel holds 0.
C9_WeightedAverageOrZero ==
    pc = "flood" =>
        \A p \in DOMAIN mask :
            ~mask[p] =>
                LET r == The(radius)
                    wsum == weightSum(p, r)
                IN  \A c \in 1 .. 3 :
                        padded_data[p][c] =
                            IF wsum > 0 THEN weightedColorSum(c, p, r) \div wsum
                            ELSE 0

\* smooth_pad ran under an external mask and met both cases: an invalid
\* pixel that was not black with no valid pixel around it, and an invalid
\* pixel whose window holds two valid pixels whose mean is cut.
C9_Witness ==
    /\ pc = "flood"
    /\ use_uv_mask
    /\ \E p \in DOMAIN mask :
         /\ ~mask[p] /\ weightSum(p, The(radius)) = 0
         /\ RGB(data[p]) # << 0, 0, 0 >>
    /\ \E p \in DOMAIN mask :
         /\ ~mask[p] /\ weightSum(p, The(radius)) = 2
         /\ weightedColorSum(1, p, The(radius)) % 2 = 1

\* C10: with a valid pixel in the mask, the RGB after flood_fill_pad is at
\* every pixel the RGB the two stages give with any other radius (the
\* distance transform, which reads the mask only, being the same).
ClaimRadii == 1 .. 4

====
